---- MODULE Spec2Model ----
\* Model of olive/strategy/search_results.py: the SearchResults ledger, its
\* record operation and its queries (check_goals, _get_results_list,
\* sort_search_points, get_pareto_frontier, to_json / from_json).
\*
\* Python dicts are modelled as sequences of [k, v] entries in insertion order
\* (a dict iterates in insertion order, and d[k] = v on an existing key keeps
\* the key's position).  Python lists are sequences.  None is <<>> where the
\* code tests "is None".  Objective values are integers: the code only
\* multiplies them by +1 / -1 and compares them.
EXTENDS Integers, Sequences, FiniteSets, TLC

\* ------------------------------------------------------------------ bounds
\* objective values range over 0..MaxVal
MaxVal == 1

\* ------------------------------------------------------------ dict helpers
\* k in d
DictHas(d, k) == \E i \in 1..Len(d) : d[i].k = k

\* d[k]  (only used where DictHas(d, k))
DictGet(d, k) == d[CHOOSE i \in 1..Len(d) : d[i].k = k].v

\* list(d.keys())
DictKeys(d) == [i \in 1..Len(d) |-> d[i].k]

\* d[k] = v : replace in place when the key exists, append otherwise
DictSet(d, k, v) ==
    IF DictHas(d, k)
    THEN [i \in 1..Len(d) |-> IF d[i].k = k THEN [k |-> k, v |-> v] ELSE d[i]]
    ELSE Append(d, [k |-> k, v |-> v])

\* list(s): the sequence s built once, element by element
List(s) == SelectSeq(s, LAMBDA e : TRUE)

\* the set of elements of a sequence
Range(s) == {s[i] : i \in 1..Len(s)}

\* ------------------------------------------------------------- input sets
Values == 0..MaxVal

\* goal of an objective: <<>> is None, <<g>> is the threshold g
GoalOptions == {<<>>} \cup {<<g>> : g \in Values}

\* objective_dict argument of the constructor, for the two objectives of the
\* running example
ObjectiveDict(ha, ga, hl, gl) ==
    <<[k |-> "accuracy", v |-> [higher_is_better |-> ha, goal |-> ga]],
      [k |-> "latency", v |-> [higher_is_better |-> hl, goal |-> gl]]>>

\* the ledgers explored: no goal at all, or accuracy >= 1 and latency <= 1
ObjectiveDicts ==
    {ObjectiveDict(TRUE, <<>>, FALSE, <<>>), ObjectiveDict(TRUE, <<1>>, FALSE, <<1>>)}

\* check_goals is explored for every direction and goal of both objectives
GoalObjectiveDicts ==
    {ObjectiveDict(ha, ga, hl, gl) :
        ha \in BOOLEAN, hl \in BOOLEAN, ga \in GoalOptions, gl \in GoalOptions}

\* init_model_history argument: None or an opaque record
InitModelHistories == {<<>>}

\* search points: dicts from pass number to a parameter value, in the order
\* the caller built them
SearchPoints ==
    {<<[k |-> 1, v |-> 1], [k |-> 2, v |-> 1]>>,
     <<[k |-> 2, v |-> 1], [k |-> 1, v |-> 1]>>,
     <<[k |-> 1, v |-> 1]>>,
     <<[k |-> 2, v |-> 1]>>}

\* results: a value for every objective, for one objective only, or empty
FullResults ==
    {<<[k |-> "accuracy", v |-> a], [k |-> "latency", v |-> l]>> :
        a \in Values, l \in Values}

PartialResults ==
    {<<[k |-> "accuracy", v |-> a]>> : a \in Values}
        \cup {<<[k |-> "latency", v |-> l]>> : l \in Values}

\* results passed to check_goals
Results == FullResults \cup PartialResults \cup {<<>>}

\* results of the trials recorded: a full result, or empty for a failed trial
TrialResults == FullResults \cup {<<>>}

\* artifact ids are strings, modelled as sequences of characters; a trial
\* produces one artifact per pass of its search point, in pass order
ArtifactIdOfPass(pass) ==
    IF pass = 1 THEN <<"1", "_", "a">> ELSE <<"2", "3", "_", "b", "_", "c">>

\* model_ids argument of record for a trial of search_point
ModelIdsOf(search_point) ==
    [i \in 1..Len(search_point) |-> ArtifactIdOfPass(search_point[i].k)]

\* ------------------------------------------------------------- fingerprint
\* hash_dict sorts the keys before hashing, so the fingerprint of a search
\* point is its entries in key order; the digest is taken to be injective
hash_dict(search_point) ==
    List([i \in 1..Len(search_point) |->
        LET k == CHOOSE key \in Range(DictKeys(search_point)) :
                    Cardinality({o \in Range(DictKeys(search_point)) : o < key}) = i - 1
        IN [k |-> k, v |-> DictGet(search_point, k)]])

\* ------------------------------------------------------------- constructor
\* SearchResults.__init__
SearchResults(objective_dict, init_model_history) ==
    LET objectives == DictKeys(objective_dict)
        higher_is_betters ==
            [i \in 1..Len(objectives) |->
                DictGet(objective_dict, objectives[i]).higher_is_better]
        withGoal == SelectSeq(objective_dict, LAMBDA e : e.v.goal # <<>>)
    IN [objective_dict |-> objective_dict,
        objectives |-> objectives,
        higher_is_betters |-> higher_is_betters,
        obj_mul |-> [i \in 1..Len(objectives) |->
                        [k |-> objectives[i],
                         v |-> IF higher_is_betters[i] THEN 1 ELSE -1]],
        goals |-> [i \in 1..Len(withGoal) |->
                        [k |-> withGoal[i].k, v |-> withGoal[i].v.goal[1]]],
        init_model_history |-> init_model_history,
        search_point_hash_table |-> <<>>,
        results |-> <<>>,
        model_ids |-> <<>>]

\* ------------------------------------------------------------------ record
\* record starting the three maps afresh: only the trial passed is kept
record_restarts(self, search_point, result, model_ids) ==
    LET search_point_hash == hash_dict(search_point)
    IN [self EXCEPT
          !.search_point_hash_table = <<[k |-> search_point_hash, v |-> search_point]>>,
          !.results = <<[k |-> search_point_hash, v |-> result]>>,
          !.model_ids = <<[k |-> search_point_hash, v |-> model_ids]>>]

\* record tidying up as it goes: the entries of the failed trials recorded
\* earlier are dropped
record_drops_failed(self, search_point, result, model_ids) ==
    LET search_point_hash == hash_dict(search_point)
        Kept(d) ==
            SelectSeq(d, LAMBDA e :
                \/ e.k = search_point_hash
                \/ DictHas(self.results, e.k) /\ DictGet(self.results, e.k) # <<>>)
    IN [self EXCEPT
          !.search_point_hash_table = Kept(DictSet(@, search_point_hash, search_point)),
          !.results = Kept(DictSet(@, search_point_hash, result)),
          !.model_ids = Kept(DictSet(@, search_point_hash, model_ids))]

\* record without its last assignment: the artifact ids are not stored
record_without_model_ids(self, search_point, result, model_ids) ==
    LET search_point_hash == hash_dict(search_point)
    IN [self EXCEPT
          !.search_point_hash_table = DictSet(@, search_point_hash, search_point),
          !.results = DictSet(@, search_point_hash, result)]

\* record with setdefault in place of assignment: the first write wins
record_first_write_wins(self, search_point, result, model_ids) ==
    LET search_point_hash == hash_dict(search_point)
    IN IF DictHas(self.results, search_point_hash) THEN self
       ELSE [self EXCEPT
               !.search_point_hash_table = DictSet(@, search_point_hash, search_point),
               !.results = DictSet(@, search_point_hash, result),
               !.model_ids = DictSet(@, search_point_hash, model_ids)]

\* record refusing a result whose keys are not the objectives: the call
\* raises and the ledger is left as it was
record_validates_keys(self, search_point, result, model_ids) ==
    LET search_point_hash == hash_dict(search_point)
    IN IF result # <<>> /\ Range(DictKeys(result)) # Range(self.objectives) THEN self
       ELSE [self EXCEPT
               !.search_point_hash_table = DictSet(@, search_point_hash, search_point),
               !.results = DictSet(@, search_point_hash, result),
               !.model_ids = DictSet(@, search_point_hash, model_ids)]

\* SearchResults.record: search_point and result are deep-copied, model_ids
\* is stored as given (the caller's list object itself)
record(self, search_point, result, model_ids) ==
    LET search_point_hash == hash_dict(search_point)
    IN [self EXCEPT
          !.search_point_hash_table = DictSet(@, search_point_hash, search_point),
          !.results = DictSet(@, search_point_hash, result),
          !.model_ids = DictSet(@, search_point_hash, model_ids)]

\* -------------------------------------------------------------- check_goals
\* outcome of a call: err is "none" when the call returns, otherwise the
\* exception it raises; value is what it returns
Returned(v) == [err |-> "none", value |-> v]

Raised(e) == [err |-> e, value |-> <<>>]

\* check_goals taking "no goal" for "every goal met"
check_goals_vacuously_true(self, result) ==
    LET goals == self.goals
        Missing(i) == ~DictHas(result, goals[i].k)
        Fails(i) ==
            DictGet(self.obj_mul, goals[i].k) * DictGet(result, goals[i].k)
                < DictGet(self.obj_mul, goals[i].k) * goals[i].v
        stops == {i \in 1..Len(goals) : Missing(i) \/ Fails(i)}
        first == CHOOSE i \in stops : \A j \in stops : i <= j
    IN IF stops = {} THEN Returned(TRUE)
       ELSE IF Missing(first) THEN Raised("KeyError")
       ELSE Returned(FALSE)

\* check_goals comparing with <= : a value equal to its goal misses it
check_goals_strict(self, result) ==
    LET goals == self.goals
        Missing(i) == ~DictHas(result, goals[i].k)
        Fails(i) ==
            DictGet(self.obj_mul, goals[i].k) * DictGet(result, goals[i].k)
                <= DictGet(self.obj_mul, goals[i].k) * goals[i].v
        stops == {i \in 1..Len(goals) : Missing(i) \/ Fails(i)}
        first == CHOOSE i \in stops : \A j \in stops : i <= j
    IN IF goals = <<>> THEN Returned(FALSE)
       ELSE IF stops = {} THEN Returned(TRUE)
       ELSE IF Missing(first) THEN Raised("KeyError")
       ELSE Returned(FALSE)

\* check_goals looking up every goal objective before it compares any: a
\* result lacking one raises whatever the others are
check_goals_reads_all_first(self, result) ==
    LET goals == self.goals
        Missing(i) == ~DictHas(result, goals[i].k)
        Fails(i) ==
            DictGet(self.obj_mul, goals[i].k) * DictGet(result, goals[i].k)
                < DictGet(self.obj_mul, goals[i].k) * goals[i].v
    IN IF goals = <<>> THEN Returned(FALSE)
       ELSE IF \E i \in 1..Len(goals) : Missing(i) THEN Raised("KeyError")
       ELSE Returned(\A i \in 1..Len(goals) : ~Fails(i))

\* SearchResults.check_goals: False without goals; otherwise the goals are
\* visited in order, a goal the result lacks raises KeyError, the first goal
\* the result misses returns False
check_goals(self, result) ==
    LET goals == self.goals
        Missing(i) == ~DictHas(result, goals[i].k)
        Fails(i) ==
            DictGet(self.obj_mul, goals[i].k) * DictGet(result, goals[i].k)
                < DictGet(self.obj_mul, goals[i].k) * goals[i].v
        stops == {i \in 1..Len(goals) : Missing(i) \/ Fails(i)}
        first == CHOOSE i \in stops : \A j \in stops : i <= j
    IN IF goals = <<>> THEN Returned(FALSE)
       ELSE IF stops = {} THEN Returned(TRUE)
       ELSE IF Missing(first) THEN Raised("KeyError")
       ELSE Returned(FALSE)

\* -------------------------------------------------------- _get_results_list
\* the loop of _get_results_list without the "result == {}" test, from
\* entry i on
RECURSIVE results_loop_keeps_empty(_, _, _, _, _)
results_loop_keeps_empty(self, objs, apply_goals, i, acc) ==
    IF i > Len(self.results) THEN Returned(acc)
    ELSE LET search_point_hash == self.results[i].k
             result == self.results[i].v
             met == IF apply_goals THEN check_goals(self, result) ELSE Returned(TRUE)
         IN IF met.err # "none" THEN met
            ELSE IF ~met.value
            THEN results_loop_keeps_empty(self, objs, apply_goals, i + 1, acc)
            ELSE IF \E d \in 1..Len(objs) : ~DictHas(result, objs[d])
            THEN Raised("KeyError")
            ELSE results_loop_keeps_empty(self, objs, apply_goals, i + 1,
                    [results |->
                        Append(acc.results,
                               List([d \in 1..Len(objs) |->
                                   DictGet(self.obj_mul, objs[d]) * DictGet(result, objs[d])])),
                     search_point_hashes |->
                        Append(acc.search_point_hashes, search_point_hash)])

\* _get_results_list without the "result == {}" test
get_results_list_keeps_empty(self, objectives, apply_goals) ==
    LET objs == IF objectives = <<>> THEN self.objectives ELSE objectives
    IN IF ~(Range(objs) \subseteq Range(self.objectives))
       THEN Raised("AssertionError")
       ELSE results_loop_keeps_empty(self, objs, apply_goals, 1,
                [results |-> <<>>, search_point_hashes |-> <<>>])

\* the loop of _get_results_list reading result.get(obj, 0): an objective the
\* result lacks counts as 0
RECURSIVE results_loop_default(_, _, _, _, _)
results_loop_default(self, objs, apply_goals, i, acc) ==
    IF i > Len(self.results) THEN Returned(acc)
    ELSE LET search_point_hash == self.results[i].k
             result == self.results[i].v
             met == IF apply_goals THEN check_goals(self, result) ELSE Returned(TRUE)
         IN IF result = <<>>
            THEN results_loop_default(self, objs, apply_goals, i + 1, acc)
            ELSE IF met.err # "none" THEN met
            ELSE IF ~met.value
            THEN results_loop_default(self, objs, apply_goals, i + 1, acc)
            ELSE results_loop_default(self, objs, apply_goals, i + 1,
                    [results |->
                        Append(acc.results,
                               List([d \in 1..Len(objs) |->
                                   DictGet(self.obj_mul, objs[d])
                                     * (IF DictHas(result, objs[d])
                                        THEN DictGet(result, objs[d]) ELSE 0)])),
                     search_point_hashes |->
                        Append(acc.search_point_hashes, search_point_hash)])

\* _get_results_list with that loop
get_results_list_default(self, objectives, apply_goals) ==
    LET objs == IF objectives = <<>> THEN self.objectives ELSE objectives
    IN IF ~(Range(objs) \subseteq Range(self.objectives))
       THEN Raised("AssertionError")
       ELSE results_loop_default(self, objs, apply_goals, 1,
                [results |-> <<>>, search_point_hashes |-> <<>>])

\* the loop of _get_results_list from entry i of self.results on: an entry
\* with an empty result is skipped, and so is one that misses the goals when
\* apply_goals is set; the others add their direction-multiplied vector and
\* their fingerprint to acc.  check_goals or result[obj] may raise KeyError.
RECURSIVE results_loop(_, _, _, _, _)
results_loop(self, objs, apply_goals, i, acc) ==
    IF i > Len(self.results) THEN Returned(acc)
    ELSE LET search_point_hash == self.results[i].k
             result == self.results[i].v
             met == IF apply_goals THEN check_goals(self, result) ELSE Returned(TRUE)
         IN IF result = <<>>
            THEN results_loop(self, objs, apply_goals, i + 1, acc)
            ELSE IF met.err # "none" THEN met
            ELSE IF ~met.value
            THEN results_loop(self, objs, apply_goals, i + 1, acc)
            ELSE IF \E d \in 1..Len(objs) : ~DictHas(result, objs[d])
            THEN Raised("KeyError")
            ELSE results_loop(self, objs, apply_goals, i + 1,
                    [results |->
                        Append(acc.results,
                               List([d \in 1..Len(objs) |->
                                   DictGet(self.obj_mul, objs[d]) * DictGet(result, objs[d])])),
                     search_point_hashes |->
                        Append(acc.search_point_hashes, search_point_hash)])

\* _get_results_list that never applies the goals
get_results_list_ignores_goals(self, objectives, apply_goals) ==
    LET objs == IF objectives = <<>> THEN self.objectives ELSE objectives
    IN IF ~(Range(objs) \subseteq Range(self.objectives))
       THEN Raised("AssertionError")
       ELSE results_loop(self, objs, FALSE, 1,
                [results |-> <<>>, search_point_hashes |-> <<>>])

\* _get_results_list applying the goals only when some goal is configured
get_results_list_goals_optional(self, objectives, apply_goals) ==
    LET objs == IF objectives = <<>> THEN self.objectives ELSE objectives
    IN IF ~(Range(objs) \subseteq Range(self.objectives))
       THEN Raised("AssertionError")
       ELSE results_loop(self, objs, apply_goals /\ self.goals # <<>>, 1,
                [results |-> <<>>, search_point_hashes |-> <<>>])

\* SearchResults._get_results_list: objectives = <<>> stands for None.
\* value.results are the direction-multiplied vectors of the entries kept,
\* value.search_point_hashes their fingerprints, both in ledger order.
get_results_list(self, objectives, apply_goals) ==
    LET objs == IF objectives = <<>> THEN self.objectives ELSE objectives
    IN IF ~(Range(objs) \subseteq Range(self.objectives))
       THEN Raised("AssertionError")
       ELSE results_loop(self, objs, apply_goals, 1,
                [results |-> <<>>, search_point_hashes |-> <<>>])

\* ------------------------------------------------------- sort_search_points
\* lexsort in descending order
lexsort_descending(keys) ==
    LET n == Len(keys[1])
        Before(i, j) ==
            \/ \E d \in 1..Len(keys) :
                  /\ keys[d][i] > keys[d][j]
                  /\ \A d2 \in (d + 1)..Len(keys) : keys[d2][i] = keys[d2][j]
            \/ /\ \A d \in 1..Len(keys) : keys[d][i] = keys[d][j]
               /\ i < j
        Pos(i) == 1 + Cardinality({j \in 1..n : Before(j, i)})
    IN List([p \in 1..n |-> CHOOSE i \in 1..n : Pos(i) = p])

\* numpy.lexsort(keys): indices that sort by the LAST key first, earlier keys
\* breaking ties, equal rows kept in index order (stable)
lexsort(keys) ==
    LET n == Len(keys[1])
        Before(i, j) ==
            \/ \E d \in 1..Len(keys) :
                  /\ keys[d][i] < keys[d][j]
                  /\ \A d2 \in (d + 1)..Len(keys) : keys[d2][i] = keys[d2][j]
            \/ /\ \A d \in 1..Len(keys) : keys[d][i] = keys[d][j]
               /\ i < j
        Pos(i) == 1 + Cardinality({j \in 1..n : Before(j, i)})
    IN List([p \in 1..n |-> CHOOSE i \in 1..n : Pos(i) = p])

\* results.T of a non-empty list of vectors
Transpose(rows) ==
    List([d \in 1..Len(rows[1]) |-> List([i \in 1..Len(rows) |-> rows[i][d]])])

\* the (None, None, None) sentinel
NoneTriple == [none |-> TRUE, model_ids |-> <<>>, search_points |-> <<>>, results |-> <<>>]

\* sort_search_points without the "if not results" return: three empty lists
sort_search_points_empty_lists(self, objectives, apply_goals) ==
    LET objs == IF objectives = <<>> THEN self.objectives ELSE objectives
        got == get_results_list(self, objs, apply_goals)
        search_point_hashes == got.value.search_point_hashes
        results ==
            List([i \in 1..Len(got.value.results) |->
                List([d \in 1..Len(objs) |->
                    got.value.results[i][d] * DictGet(self.obj_mul, objs[d])])])
        sorted_indices == lexsort(Transpose(results))
        sorted_hashes ==
            List([p \in 1..Len(sorted_indices) |-> search_point_hashes[sorted_indices[p]]])
    IN IF ~(Range(objs) \subseteq Range(self.objectives))
       THEN Raised("AssertionError")
       ELSE IF got.err # "none" THEN got
       ELSE IF got.value.results = <<>>
       THEN Returned([none |-> FALSE, model_ids |-> <<>>,
                      search_points |-> <<>>, results |-> <<>>])
       ELSE IF \E p \in 1..Len(sorted_hashes) :
                  \/ ~DictHas(self.model_ids, sorted_hashes[p])
                  \/ ~DictHas(self.results, sorted_hashes[p])
                  \/ ~DictHas(self.search_point_hash_table, sorted_hashes[p])
       THEN Raised("KeyError")
       ELSE Returned(
              [none |-> FALSE,
               model_ids |->
                    [p \in 1..Len(sorted_hashes) |-> DictGet(self.model_ids, sorted_hashes[p])],
               search_points |->
                    [p \in 1..Len(sorted_hashes) |->
                        DictGet(self.search_point_hash_table, sorted_hashes[p])],
               results |->
                    [p \in 1..Len(sorted_hashes) |-> DictGet(self.results, sorted_hashes[p])]])

\* sort_search_points reading the artifact ids in ledger order, not in sorted
\* order
sort_search_points_ids_unsorted(self, objectives, apply_goals) ==
    LET objs == IF objectives = <<>> THEN self.objectives ELSE objectives
        got == get_results_list(self, objs, apply_goals)
        search_point_hashes == got.value.search_point_hashes
        results ==
            List([i \in 1..Len(got.value.results) |->
                List([d \in 1..Len(objs) |->
                    got.value.results[i][d] * DictGet(self.obj_mul, objs[d])])])
        sorted_indices == lexsort(Transpose(results))
        sorted_hashes ==
            List([p \in 1..Len(sorted_indices) |-> search_point_hashes[sorted_indices[p]]])
    IN IF ~(Range(objs) \subseteq Range(self.objectives))
       THEN Raised("AssertionError")
       ELSE IF got.err # "none" THEN got
       ELSE IF got.value.results = <<>> THEN Returned(NoneTriple)
       ELSE IF \E p \in 1..Len(sorted_hashes) :
                  \/ ~DictHas(self.model_ids, sorted_hashes[p])
                  \/ ~DictHas(self.results, sorted_hashes[p])
                  \/ ~DictHas(self.search_point_hash_table, sorted_hashes[p])
       THEN Raised("KeyError")
       ELSE Returned(
              [none |-> FALSE,
               model_ids |->
                    [p \in 1..Len(sorted_hashes) |->
                        DictGet(self.model_ids, search_point_hashes[p])],
               search_points |->
                    [p \in 1..Len(sorted_hashes) |->
                        DictGet(self.search_point_hash_table, sorted_hashes[p])],
               results |->
                    [p \in 1..Len(sorted_hashes) |-> DictGet(self.results, sorted_hashes[p])]])

\* SearchResults.sort_search_points: the vectors _get_results_list returns
\* are multiplied by obj_mul a second time before the lexsort
sort_search_points(self, objectives, apply_goals) ==
    LET objs == IF objectives = <<>> THEN self.objectives ELSE objectives
        got == get_results_list(self, objs, apply_goals)
        search_point_hashes == got.value.search_point_hashes
        results ==
            List([i \in 1..Len(got.value.results) |->
                List([d \in 1..Len(objs) |->
                    got.value.results[i][d] * DictGet(self.obj_mul, objs[d])])])
        sorted_indices == lexsort(Transpose(results))
        sorted_hashes ==
            List([p \in 1..Len(sorted_indices) |-> search_point_hashes[sorted_indices[p]]])
    IN IF ~(Range(objs) \subseteq Range(self.objectives))
       THEN Raised("AssertionError")
       ELSE IF got.err # "none" THEN got
       ELSE IF got.value.results = <<>> THEN Returned(NoneTriple)
       ELSE IF \E p \in 1..Len(sorted_hashes) :
                  \/ ~DictHas(self.model_ids, sorted_hashes[p])
                  \/ ~DictHas(self.results, sorted_hashes[p])
                  \/ ~DictHas(self.search_point_hash_table, sorted_hashes[p])
       THEN Raised("KeyError")
       ELSE Returned(
              [none |-> FALSE,
               model_ids |->
                    [p \in 1..Len(sorted_hashes) |-> DictGet(self.model_ids, sorted_hashes[p])],
               search_points |->
                    [p \in 1..Len(sorted_hashes) |->
                        DictGet(self.search_point_hash_table, sorted_hashes[p])],
               results |->
                    [p \in 1..Len(sorted_hashes) |-> DictGet(self.results, sorted_hashes[p])]])

\* ------------------------------------------------------ get_pareto_frontier
\* olive.strategy.utils.find_pareto_frontier_points as get_pareto_frontier
\* calls it: the array it is given is the list of fingerprints (a 1-D array of
\* n strings), not an n x D matrix of objective vectors.  An empty input
\* yields no index.  On a non-empty input the finder either raises (the array
\* has no second axis) or treats the elements as points of dimension 0, none
\* of which is strictly better than another in some dimension, and returns
\* every index.
find_pareto_frontier_points(points, raises) ==
    IF points = <<>> THEN Returned(<<>>)
    ELSE IF raises THEN Raised("FinderError")
    ELSE Returned([i \in 1..Len(points) |-> i])

\* get_pareto_frontier reading the first frontier entry before looking
\* whether there is one: IndexError when nothing qualifies
get_pareto_frontier_reads_first(self, objectives, apply_goals, raises) ==
    LET got == get_results_list(self, objectives, apply_goals)
        search_point_hashes == got.value.results
        results == got.value.search_point_hashes
        pareto_frontier_points == find_pareto_frontier_points(results, raises)
        pareto_frontier_hashes ==
            [i \in 1..Len(pareto_frontier_points.value) |->
                search_point_hashes[pareto_frontier_points.value[i]]]
    IN IF got.err # "none" THEN got
       ELSE IF pareto_frontier_points.err # "none" THEN pareto_frontier_points
       ELSE IF pareto_frontier_hashes = <<>> THEN Raised("IndexError")
       ELSE Raised("TypeError")

\* SearchResults.get_pareto_frontier: line 65 unpacks the pair returned by
\* _get_results_list as (search_point_hashes, results), so search_point_hashes
\* holds the vectors and results the fingerprints.  Each frontier "hash" is
\* then a list of numbers, and model_ids[<list>] raises TypeError (a list is
\* unhashable) before any model id is read.
get_pareto_frontier(self, objectives, apply_goals, raises) ==
    LET got == get_results_list(self, objectives, apply_goals)
        search_point_hashes == got.value.results
        results == got.value.search_point_hashes
        pareto_frontier_points == find_pareto_frontier_points(results, raises)
        pareto_frontier_hashes ==
            [i \in 1..Len(pareto_frontier_points.value) |->
                search_point_hashes[pareto_frontier_points.value[i]]]
    IN IF got.err # "none" THEN got
       ELSE IF pareto_frontier_points.err # "none" THEN pareto_frontier_points
       ELSE IF pareto_frontier_hashes = <<>> THEN Returned(<<>>)
       ELSE Raised("TypeError")

\* ---------------------------------------------------------- get_results_df
\* SearchResults.get_results_df: its first statement, line 76, calls
\* get_pareto_frontier with the keyword apply_constraints, which the
\* signature of line 58 does not have: the call raises TypeError before the
\* table is begun (lines 78, 91 and 92 go on to read self.metrics and
\* self.check_constraints, which the class does not define either)
get_results_df(self, show_search_points) == Raised("TypeError")

\* ------------------------------------------------------- to_json / from_json
\* SearchResults.to_json
to_json(self) ==
    [objective_dict |-> self.objective_dict,
     init_model_history |-> self.init_model_history,
     results |-> self.results,
     model_ids |-> self.model_ids,
     search_point_hash_table |-> self.search_point_hash_table]

\* from_json that does not restore model_ids
from_json_without_model_ids(json_dict) ==
    [SearchResults(json_dict.objective_dict, json_dict.init_model_history) EXCEPT
        !.search_point_hash_table = json_dict.search_point_hash_table,
        !.results = json_dict.results]

\* from_json taking every field of the document for an attribute of the
\* object (as object.__dict__.update(json_dict) would)
from_json_keeps_fields(json_dict) ==
    LET loaded ==
            [SearchResults(json_dict.objective_dict, json_dict.init_model_history) EXCEPT
                !.search_point_hash_table = json_dict.search_point_hash_table,
                !.results = json_dict.results,
                !.model_ids = json_dict.model_ids]
    IN [f \in DOMAIN loaded \cup DOMAIN json_dict |->
            IF f \in DOMAIN loaded THEN loaded[f] ELSE json_dict[f]]

\* SearchResults.from_json
from_json(json_dict) ==
    [SearchResults(json_dict.objective_dict, json_dict.init_model_history) EXCEPT
        !.search_point_hash_table = json_dict.search_point_hash_table,
        !.results = json_dict.results,
        !.model_ids = json_dict.model_ids]

\* ================================================================== state
VARIABLES
    self,   \* the SearchResults object
    ret     \* the call in progress at the caller: its arguments and outcome

vars == <<self, ret>>

Idle == [op |-> "idle"]

\* objectives argument of a query: None (<<>>, all objectives in their
\* configured order) or one configured objective
ObjectiveLists == {<<>>, <<"accuracy">>, <<"latency">>}

Init ==
    /\ \E od \in ObjectiveDicts, imh \in InitModelHistories :
          self = SearchResults(od, imh)
    /\ ret = Idle

\* the driver records a trial
Record ==
    /\ ret = Idle
    /\ \E search_point \in SearchPoints, result \in TrialResults :
          LET h == hash_dict(search_point)
              model_ids == ModelIdsOf(search_point)
          IN
          /\ self' = record(self, search_point, result, model_ids)
          /\ ret' = [op |-> "record", search_point |-> search_point,
                     result |-> result, model_ids |-> model_ids,
                     replaced |-> DictHas(self.results, h)]

\* search points of a single pass
SinglePassPoints == {<<[k |-> 1, v |-> 1]>>, <<[k |-> 2, v |-> 1]>>}

\* the driver records a trial whose result may lack objectives: record takes
\* any mapping
RecordAny ==
    /\ ret = Idle
    /\ \E search_point \in SinglePassPoints, result \in Results :
          LET h == hash_dict(search_point)
              model_ids == ModelIdsOf(search_point)
          IN
          /\ self' = record(self, search_point, result, model_ids)
          /\ ret' = [op |-> "record", search_point |-> search_point,
                     result |-> result, model_ids |-> model_ids,
                     replaced |-> DictHas(self.results, h)]

\* the driver records two trials of different fingerprints, one after the
\* other; swapped is the ledger the same two calls leave when made in the
\* other order
RecordTwo ==
    /\ ret = Idle
    /\ \E p1 \in SinglePassPoints, p2 \in SinglePassPoints,
          r1 \in TrialResults, r2 \in TrialResults :
          /\ hash_dict(p1) # hash_dict(p2)
          /\ self' = record(record(self, p1, r1, ModelIdsOf(p1)), p2, r2, ModelIdsOf(p2))
          /\ ret' = [op |-> "record_two",
                     first |-> [search_point |-> p1, result |-> r1],
                     second |-> [search_point |-> p2, result |-> r2],
                     swapped |-> record(record(self, p2, r2, ModelIdsOf(p2)),
                                        p1, r1, ModelIdsOf(p1))]

\* the four trials A, B, C, D of the running example, recorded in that order
\* on a ledger without goals: accuracy 0.9, 0.95, 0.85, 0.8 (in hundredths),
\* latency 50, 80, 40, 60
ExampleTrial(n, accuracy, latency, name) ==
    [search_point |-> <<[k |-> 1, v |-> n]>>,
     result |-> <<[k |-> "accuracy", v |-> accuracy], [k |-> "latency", v |-> latency]>>,
     model_ids |-> <<<<name, "_", "m">>>>]

ExampleTrials ==
    <<ExampleTrial(1, 90, 50, "A"), ExampleTrial(2, 95, 80, "B"),
      ExampleTrial(3, 85, 40, "C"), ExampleTrial(4, 80, 60, "D")>>

RECURSIVE RecordAll(_, _, _)
RecordAll(obj, trials, i) ==
    IF i > Len(trials) THEN obj
    ELSE RecordAll(record(obj, trials[i].search_point, trials[i].result, trials[i].model_ids),
                   trials, i + 1)

ExampleLedger ==
    RecordAll(SearchResults(ObjectiveDict(TRUE, <<>>, FALSE, <<>>), <<>>), ExampleTrials, 1)

\* an artifact id the caller appends to a list it passed to record
ExtraId == <<"4", "_", "d">>

\* after record has returned the caller still holds the three objects it
\* passed.  Changing its search point or its result touches the caller's
\* objects only (record stored deep copies); its model_ids list is the very
\* object the ledger stores, so appending to it changes the stored list.
MutateSearchPoint ==
    /\ ret.op = "record"
    /\ ret' = [op |-> "mutate", arg |-> "search_point"]
    /\ UNCHANGED self

MutateResult ==
    /\ ret.op = "record"
    /\ ret' = [op |-> "mutate", arg |-> "result"]
    /\ UNCHANGED self

MutateModelIds ==
    /\ ret.op = "record"
    /\ LET h == hash_dict(ret.search_point)
           grown == Append(DictGet(self.model_ids, h), ExtraId)
       IN self' = [self EXCEPT !.model_ids = DictSet(@, h, grown)]
    /\ ret' = [op |-> "mutate", arg |-> "model_ids"]

CheckGoals ==
    /\ ret = Idle
    /\ \E result \in Results :
          ret' = [op |-> "check_goals", result |-> result,
                  out |-> check_goals(self, result)]
    /\ UNCHANGED self

\* sort_search_points with line 130 multiplying the stored results in place
\* (as it would, were the vectors the ledger's own objects)
SortSearchPointsInPlace ==
    /\ ret = Idle
    /\ \E objectives \in ObjectiveLists, apply_goals \in BOOLEAN :
          ret' = [op |-> "sort_search_points", objectives |-> objectives,
                  apply_goals |-> apply_goals,
                  out |-> sort_search_points(self, objectives, apply_goals)]
    /\ self' = [self EXCEPT !.results =
                  [i \in 1..Len(@) |->
                      [k |-> @[i].k,
                       v |-> [d \in 1..Len(@[i].v) |->
                                [k |-> @[i].v[d].k,
                                 v |-> DictGet(self.obj_mul, @[i].v[d].k) * @[i].v[d].v]]]]]

\* a query on the ledger: every statement of lines 119-139 and 147-163 binds
\* a local; the one in-place statement, line 130, multiplies the array that
\* line 129 built from the fresh lists of line 161
SortSearchPoints ==
    /\ ret = Idle
    /\ \E objectives \in ObjectiveLists, apply_goals \in BOOLEAN :
          ret' = [op |-> "sort_search_points", objectives |-> objectives,
                  apply_goals |-> apply_goals,
                  out |-> sort_search_points(self, objectives, apply_goals)]
    /\ UNCHANGED self

GetParetoFrontier ==
    /\ ret = Idle
    /\ \E objectives \in ObjectiveLists, apply_goals \in BOOLEAN, raises \in BOOLEAN :
          ret' = [op |-> "get_pareto_frontier", objectives |-> objectives,
                  apply_goals |-> apply_goals,
                  out |-> get_pareto_frontier(self, objectives, apply_goals, raises)]
    /\ UNCHANGED self

\* the ledger is dumped and loaded again; the loaded object is returned
FromJson ==
    /\ ret = Idle
    /\ ret' = [op |-> "from_json", out |-> Returned(from_json(to_json(self)))]
    /\ UNCHANGED self

\* the ledger is dumped
ToJson ==
    /\ ret = Idle
    /\ ret' = [op |-> "to_json", out |-> Returned(to_json(self))]
    /\ UNCHANGED self

\* top-level fields a persisted document may carry beside the five that
\* to_json writes
ExtraFieldSets == {{}, {"version"}, {"version", "comment"}}

\* the document doc with the fields of extra added
WithFields(doc, extra) ==
    [f \in DOMAIN doc \cup extra |-> IF f \in DOMAIN doc THEN doc[f] ELSE "x"]

\* a persisted document is loaded: the dump of the ledger, as it is or with
\* extra top-level fields.  from_json is a classmethod: it builds a new
\* object and leaves this one alone.
LoadJson ==
    /\ ret = Idle
    /\ \E extra \in ExtraFieldSets :
          LET json_dict == WithFields(to_json(self), extra)
          IN ret' = [op |-> "load_json", json_dict |-> json_dict,
                     out |-> Returned(from_json(json_dict))]
    /\ UNCHANGED self

\* the ledger is asked for its table
GetResultsDf ==
    /\ ret = Idle
    /\ \E show_search_points \in BOOLEAN :
          ret' = [op |-> "get_results_df", show_search_points |-> show_search_points,
                  out |-> get_results_df(self, show_search_points)]
    /\ UNCHANGED self

\* ---- the caller keeps what a query returned
\* the value the caller holds after to_json or sort_search_points returned,
\* once record has run again.  to_json's dict holds self.results,
\* self.model_ids and self.search_point_hash_table themselves (lines 172-174),
\* the dicts lines 54-56 assign into, so the dump shows the new entry.  The
\* three lists of sort_search_points are built by lines 135-138 and hold the
\* objects stored at the time; record puts new objects in the maps and leaves
\* those as they are.
RecordAfterQuery ==
    /\ ret.op \in {"to_json", "sort_search_points"}
    /\ \E search_point \in SinglePassPoints, result \in Results :
          /\ self' = record(self, search_point, result, ModelIdsOf(search_point))
          /\ ret' = [op |-> "kept", of |-> ret.op,
                     out |-> IF ret.op = "to_json" THEN Returned(to_json(self'))
                             ELSE ret.out]

\* fingerprints of the entries the caller can reach through the value just
\* returned: every key of the dumped maps, the entries the sort kept
ReturnedHashes ==
    IF ret.op = "to_json" THEN Range(DictKeys(ret.out.value.results))
    ELSE IF ret.out.err = "none" /\ ~ret.out.value.none
    THEN Range(get_results_list(self, ret.objectives, ret.apply_goals).value.search_point_hashes)
    ELSE {}

\* right after the query returned, the caller clears an object it reached
\* through the returned value: a configuration, a result or a list of
\* artifact ids.  These are the stored objects (lines 135, 136, 138 and
\* 172-174 hand them out uncopied).
MutateReturned ==
    /\ ret.op \in {"to_json", "sort_search_points"}
    /\ \E h \in ReturnedHashes, arg \in {"search_point", "result", "model_ids"} :
          /\ self' =
                IF arg = "search_point"
                THEN [self EXCEPT !.search_point_hash_table = DictSet(@, h, <<>>)]
                ELSE IF arg = "result"
                THEN [self EXCEPT !.results = DictSet(@, h, <<>>)]
                ELSE [self EXCEPT !.model_ids = DictSet(@, h, <<>>)]
          /\ ret' = [op |-> "mutate_returned", of |-> ret.op, arg |-> arg]

\* ---- record running beside a reader
\* d.get(k) as a reader sees it: <<v>> when the key is there, <<>> when not
Lookup(d, k) == IF DictHas(d, k) THEN <<DictGet(d, k)>> ELSE <<>>

\* what the three maps hold under the fingerprint h
TripleOf(obj, h) ==
    [search_point |-> Lookup(obj.search_point_hash_table, h),
     result |-> Lookup(obj.results, h),
     model_ids |-> Lookup(obj.model_ids, h)]

\* record is entered from a worker thread: line 53 has computed the
\* fingerprint, none of the three assignments has run yet.  The three
\* assignments are separate statements and the code takes no lock, so other
\* threads run between them.
RecordCall ==
    /\ ret = Idle
    /\ \E search_point \in SearchPoints, result \in TrialResults :
          ret' = [op |-> "recording", pc |-> 54,
                  search_point |-> search_point,
                  search_point_hash |-> hash_dict(search_point),
                  result |-> result,
                  model_ids |-> ModelIdsOf(search_point),
                  old |-> TripleOf(self, hash_dict(search_point)),
                  seen |-> <<>>]
    /\ UNCHANGED self

\* line 54: self.search_point_hash_table[search_point_hash] = deepcopy(search_point)
RecordLine54 ==
    /\ ret.op = "recording" /\ ret.pc = 54
    /\ self' = [self EXCEPT !.search_point_hash_table =
                    DictSet(@, ret.search_point_hash, ret.search_point)]
    /\ ret' = [ret EXCEPT !.pc = 55]

\* line 55: self.results[search_point_hash] = deepcopy(result)
RecordLine55 ==
    /\ ret.op = "recording" /\ ret.pc = 55
    /\ self' = [self EXCEPT !.results = DictSet(@, ret.search_point_hash, ret.result)]
    /\ ret' = [ret EXCEPT !.pc = 56]

\* line 56: self.model_ids[search_point_hash] = model_ids, and record returns
RecordLine56 ==
    /\ ret.op = "recording" /\ ret.pc = 56
    /\ self' = [self EXCEPT !.model_ids = DictSet(@, ret.search_point_hash, ret.model_ids)]
    /\ ret' = [op |-> "record", search_point |-> ret.search_point,
               result |-> ret.result, model_ids |-> ret.model_ids,
               replaced |-> ret.old.result # <<>>]

\* a query on another thread looks up the fingerprint being recorded in the
\* three maps (lines 135, 136 and 138 of sort_search_points)
Read ==
    /\ ret.op = "recording"
    /\ ret' = [ret EXCEPT !.seen = <<TripleOf(self, ret.search_point_hash)>>]
    /\ UNCHANGED self

\* the caller is done with the outcome of the last call
Return ==
    /\ ret # Idle
    /\ ret.op # "recording"
    /\ ret' = Idle
    /\ UNCHANGED self

\* the ledger and its queries
Next ==
    \/ Record
    \/ SortSearchPoints
    \/ GetParetoFrontier
    \/ FromJson
    \/ Return

Spec == Init /\ [][Next]_vars

\* the ledger is filled, dumped and loaded
NextStore ==
    \/ Record
    \/ FromJson
    \/ Return

SpecStore == Init /\ [][NextStore]_vars

\* the ledger and its two queries
NextQueries ==
    \/ Record
    \/ SortSearchPoints
    \/ GetParetoFrontier
    \/ Return

SpecQueries == Init /\ [][NextQueries]_vars

\* the ledger and its ranking
NextSort ==
    \/ Record
    \/ SortSearchPoints
    \/ Return

SpecSort == Init /\ [][NextSort]_vars

\* the queries on a ledger whose results may lack objectives
NextPartial ==
    \/ RecordAny
    \/ SortSearchPoints
    \/ GetParetoFrontier
    \/ Return

SpecPartial == Init /\ [][NextPartial]_vars

\* every operation of the ledger, on results that may lack objectives
NextLedger ==
    \/ RecordAny
    \/ CheckGoals
    \/ SortSearchPoints
    \/ GetParetoFrontier
    \/ ToJson
    \/ LoadJson
    \/ GetResultsDf
    \/ Return

SpecLedger == Init /\ [][NextLedger]_vars

\* the caller keeps the value a query returned while the ledger goes on
NextSnapshot ==
    \/ RecordAny
    \/ ToJson
    \/ SortSearchPoints
    \/ RecordAfterQuery
    \/ MutateReturned
    \/ Return

SpecSnapshot == Init /\ [][NextSnapshot]_vars

\* the ledgers two trials are recorded on: a new ledger, a ledger of one
\* trial (of a third fingerprint, or of the fingerprint of one of the two),
\* a ledger that holds a trial of each of the two
CommuteLedgers(od, imh) ==
    LET new == SearchResults(od, imh)
        one == {record(new, search_point, result, ModelIdsOf(search_point)) :
                    search_point \in SearchPoints, result \in TrialResults}
        two == {record(obj, search_point, result, ModelIdsOf(search_point)) :
                    obj \in {x \in one : x.search_point_hash_table[1].v \in SinglePassPoints},
                    search_point \in SinglePassPoints, result \in TrialResults}
    IN {new} \cup one \cup two

InitCommute ==
    /\ \E od \in ObjectiveDicts, imh \in InitModelHistories :
          self \in CommuteLedgers(od, imh)
    /\ ret = Idle

NextCommute == RecordTwo

SpecCommute == InitCommute /\ [][NextCommute]_vars

\* the caller keeps and changes the objects it passed to record
NextCaller ==
    \/ Record
    \/ MutateSearchPoint
    \/ MutateResult
    \/ MutateModelIds
    \/ SortSearchPoints
    \/ Return

SpecCaller == Init /\ [][NextCaller]_vars

\* record on a worker thread, a query on another
NextConcurrent ==
    \/ RecordCall
    \/ RecordLine54
    \/ RecordLine55
    \/ RecordLine56
    \/ Read
    \/ Return

SpecConcurrent == Init /\ [][NextConcurrent]_vars

\* check_goals on a ledger of any objective specification
InitGoals ==
    /\ \E od \in GoalObjectiveDicts, imh \in InitModelHistories :
          self = SearchResults(od, imh)
    /\ ret = Idle

NextGoals ==
    \/ CheckGoals
    \/ Return

SpecGoals == InitGoals /\ [][NextGoals]_vars

\* ================================================================= claims
\* ---- vocabulary of the claims

\* the text before the first underscore of an artifact id
TokenOf(model_id) ==
    LET cuts == {i \in 1..Len(model_id) : model_id[i] = "_"}
        first == IF cuts = {} THEN Len(model_id) + 1
                 ELSE CHOOSE i \in cuts : \A j \in cuts : i <= j
    IN SubSeq(model_id, 1, first - 1)

\* the objectives a query selects
Selected(objectives) == IF objectives = <<>> THEN DictKeys(self.objective_dict) ELSE objectives

HigherIsBetter(obj) == DictGet(self.objective_dict, obj).higher_is_better

\* an entry qualifies for a query: non-empty result, passing check_goals
\* when apply_goals is set
Qualifies(result, apply_goals) ==
    /\ result # <<>>
    /\ apply_goals =>
          /\ check_goals(self, result).err = "none"
          /\ check_goals(self, result).value

QualifyingHashes(apply_goals) ==
    {e.k : e \in {x \in Range(self.results) : Qualifies(x.v, apply_goals)}}

\* y is at least as good as / strictly better than x in objective obj
AtLeastAsGood(y, x, obj) ==
    IF HigherIsBetter(obj) THEN DictGet(y, obj) >= DictGet(x, obj)
    ELSE DictGet(y, obj) <= DictGet(x, obj)

StrictlyBetter(y, x, obj) ==
    IF HigherIsBetter(obj) THEN DictGet(y, obj) > DictGet(x, obj)
    ELSE DictGet(y, obj) < DictGet(x, obj)

\* result y dominates result x on the selected objectives
Dominates(y, x, objs) ==
    /\ \A d \in 1..Len(objs) : AtLeastAsGood(y, x, objs[d])
    /\ \E d \in 1..Len(objs) : StrictlyBetter(y, x, objs[d])

\* fingerprints of the qualifying entries no other qualifying entry dominates
FrontierHashes(objectives, apply_goals) ==
    {h \in QualifyingHashes(apply_goals) :
        \A g \in QualifyingHashes(apply_goals) :
            ~Dominates(DictGet(self.results, g), DictGet(self.results, h),
                       Selected(objectives))}

\* model-id tokens of those entries
FrontierTokens(objectives, apply_goals) ==
    {TokenOf(DictGet(self.model_ids, h)[Len(DictGet(self.model_ids, h))]) :
        h \in FrontierHashes(objectives, apply_goals)}

SomeNonEmptyResult == \E i \in 1..Len(self.results) : self.results[i].v # <<>>

\* C1: on a ledger with at least one non-empty result get_pareto_frontier
\* returns model-id tokens, and every token it returns belongs to a
\* qualifying entry that no other qualifying entry dominates.
C1_FrontierOnlyNonDominated ==
    (ret.op = "get_pareto_frontier" /\ SomeNonEmptyResult) =>
        /\ ret.out.err = "none"
        /\ \A i \in 1..Len(ret.out.value) :
              ret.out.value[i] \in FrontierTokens(ret.objectives, ret.apply_goals)

\* C2: get_pareto_frontier returns the token of every qualifying entry that
\* no other qualifying entry dominates (mutually non-dominated and tied
\* entries included).
C2_FrontierComplete ==
    ret.op = "get_pareto_frontier" =>
        /\ ret.out.err = "none"
        /\ FrontierTokens(ret.objectives, ret.apply_goals) \subseteq Range(ret.out.value)

\* no two entries of a dict share a key
KeysUnique(d) == \A i, j \in 1..Len(d) : d[i].k = d[j].k => i = j

KeySet(d) == Range(DictKeys(d))

\* what a record step has to do to the dict d, given the value it was passed
ReplacesEntry(d, dNew, h, value) ==
    /\ KeysUnique(dNew)
    /\ KeySet(dNew) = KeySet(d) \cup {h}
    /\ DictGet(dNew, h) = value
    /\ \A k \in KeySet(d) \ {h} : DictGet(dNew, k) = DictGet(d, k)

\* C3: a record call leaves exactly one entry per fingerprint recorded so
\* far; the entry under the fingerprint of the configuration passed holds
\* the configuration, result and artifact ids of this call (it replaces an
\* entry already there), and the entries under the other fingerprints keep
\* what their own last record call stored.
C3_LastWriteWins ==
    [][ret'.op = "record" =>
          \E h \in {hash_dict(ret'.search_point)} :
          /\ ReplacesEntry(self.search_point_hash_table, self'.search_point_hash_table,
                           h, ret'.search_point)
          /\ ReplacesEntry(self.results, self'.results, h, ret'.result)
          /\ ReplacesEntry(self.model_ids, self'.model_ids, h, ret'.model_ids)
          /\ ret'.replaced => Len(self'.results) = Len(self.results)]_vars

\* a configuration was recorded again, built in another key order, on a
\* ledger of three fingerprints, and replaced its entry
C3_Witness ==
    /\ ret.op = "record"
    /\ ret.replaced
    /\ Len(self.results) = 3
    /\ ret.search_point # hash_dict(ret.search_point)
    /\ DictGet(self.search_point_hash_table, hash_dict(ret.search_point)) = ret.search_point

\* direction-adjusted vector of a result: value times +1 for
\* higher_is_better, -1 otherwise
AdjustedVector(result, objs) ==
    [d \in 1..Len(objs) |->
        (IF HigherIsBetter(objs[d]) THEN 1 ELSE -1) * DictGet(result, objs[d])]

\* u is not after v in lexicographic order, first component first
LexLeq(u, v) ==
    \/ u = v
    \/ \E d \in 1..Len(u) : u[d] < v[d] /\ \A d2 \in 1..(d - 1) : u[d2] = v[d2]

SortReturnedEntries ==
    /\ ret.op = "sort_search_points"
    /\ ret.out.err = "none"
    /\ ~ret.out.value.none

\* C4: sort_search_points orders the entries lexicographically by their
\* direction-adjusted objective vectors, ascending, the first selected
\* objective being the primary key.
C4_SortLexicographic ==
    SortReturnedEntries =>
        \A p \in 1..(Len(ret.out.value.results) - 1) :
            LexLeq(AdjustedVector(ret.out.value.results[p], Selected(ret.objectives)),
                   AdjustedVector(ret.out.value.results[p + 1], Selected(ret.objectives)))

Reverse(s) == [i \in 1..Len(s) |-> s[Len(s) + 1 - i]]

\* the ledger with the same entries whose specification differs in the
\* higher_is_better flag of obj only
FlippedLedger(obj) ==
    [SearchResults(
        [i \in 1..Len(self.objective_dict) |->
            IF self.objective_dict[i].k = obj
            THEN [k |-> obj,
                  v |-> [self.objective_dict[i].v EXCEPT
                            !.higher_is_better = ~self.objective_dict[i].v.higher_is_better]]
            ELSE self.objective_dict[i]],
        self.init_model_history) EXCEPT
        !.search_point_hash_table = self.search_point_hash_table,
        !.results = self.results,
        !.model_ids = self.model_ids]

\* C5: sorting on a single objective, the ledger with that objective's
\* higher_is_better flag flipped returns the entries in the opposite order
\* (entries with pairwise distinct values of the objective).
C5_FlipReversesOrder ==
    (/\ SortReturnedEntries
     /\ Len(ret.objectives) = 1
     /\ ~ret.apply_goals
     /\ \A p, q \in 1..Len(ret.out.value.results) :
           p # q => DictGet(ret.out.value.results[p], ret.objectives[1])
                      # DictGet(ret.out.value.results[q], ret.objectives[1]))
    => LET flipped == sort_search_points(FlippedLedger(ret.objectives[1]),
                                         ret.objectives, FALSE)
       IN /\ flipped.err = "none"
          /\ flipped.value.results = Reverse(ret.out.value.results)
          /\ flipped.value.search_points = Reverse(ret.out.value.search_points)
          /\ flipped.value.model_ids = Reverse(ret.out.value.model_ids)

\* ---- check_goals

\* indices of the objectives that have a goal
GoalObjectives ==
    {i \in 1..Len(self.objective_dict) : self.objective_dict[i].v.goal # <<>>}

\* C6: when no objective has a goal, check_goals returns False for every
\* result.
C6_NoGoalsNeverSatisfied ==
    (ret.op = "check_goals" /\ GoalObjectives = {}) =>
        ret.out.err = "none" /\ ret.out.value = FALSE

\* check_goals was asked about the best result there is, without goals
C6_Witness ==
    /\ ret.op = "check_goals"
    /\ GoalObjectives = {}
    /\ HigherIsBetter("accuracy") /\ ~HigherIsBetter("latency")
    /\ ret.result = <<[k |-> "accuracy", v |-> MaxVal], [k |-> "latency", v |-> 0]>>
    /\ ret.out.err = "none" /\ ret.out.value = FALSE

\* the result meets the goal of objective i, a value equal to the goal included
MeetsGoal(result, i) ==
    LET obj == self.objective_dict[i]
    IN IF obj.v.higher_is_better
       THEN DictGet(result, obj.k) >= obj.v.goal[1]
       ELSE DictGet(result, obj.k) <= obj.v.goal[1]

\* C7: with at least one goal, on a result that has every objective with a
\* goal, check_goals returns True exactly when every such objective is >= its
\* goal (higher_is_better) or <= its goal (otherwise).
C7_GoalsMetIffAllMet ==
    (/\ ret.op = "check_goals"
     /\ GoalObjectives # {}
     /\ \A i \in GoalObjectives : DictHas(ret.result, self.objective_dict[i].k))
    => /\ ret.out.err = "none"
       /\ ret.out.value <=> \A i \in GoalObjectives : MeetsGoal(ret.result, i)

\* both objectives have a goal, one in each direction, and a result equal to
\* both goals satisfies them
C7_Witness ==
    /\ ret.op = "check_goals"
    /\ Cardinality(GoalObjectives) = 2
    /\ HigherIsBetter("accuracy") /\ ~HigherIsBetter("latency")
    /\ \A i \in GoalObjectives :
          /\ DictHas(ret.result, self.objective_dict[i].k)
          /\ DictGet(ret.result, self.objective_dict[i].k) = self.objective_dict[i].v.goal[1]
    /\ ret.out.err = "none" /\ ret.out.value = TRUE

\* ---- round trip

\* two calls end the same way: the same exception, or the same return value
SameOutcome(a, b) == a.err = b.err /\ (a.err = "none" => a.value = b.value)

\* the ledgers x and y answer every query alike
SameAnswers(x, y) ==
    \A objectives \in ObjectiveLists, apply_goals \in BOOLEAN :
        /\ SameOutcome(sort_search_points(x, objectives, apply_goals),
                       sort_search_points(y, objectives, apply_goals))
        /\ \A raises \in BOOLEAN :
              SameOutcome(get_pareto_frontier(x, objectives, apply_goals, raises),
                          get_pareto_frontier(y, objectives, apply_goals, raises))

\* C8: the ledger loaded from to_json's dump answers get_pareto_frontier and
\* sort_search_points as the original does, for every objectives argument
\* and apply_goals.
C8_RoundTrip ==
    ret.op = "from_json" => SameAnswers(ret.out.value, self)

\* a ledger of three entries with goals was dumped and loaded, and sorting
\* the loaded ledger under its goals returns two entries
C8_Witness ==
    /\ ret.op = "from_json"
    /\ Len(self.results) = 3
    /\ self.goals # <<>>
    /\ sort_search_points(ret.out.value, <<>>, TRUE).err = "none"
    /\ Len(sort_search_points(ret.out.value, <<>>, TRUE).value.results) = 2

\* ---- empty results

\* the entries of d whose fingerprint has a non-empty result
NonEmptyOnly(d) ==
    SelectSeq(d, LAMBDA e : DictHas(self.results, e.k) /\ DictGet(self.results, e.k) # <<>>)

\* the ledger had the failed trials never been recorded
WithoutEmptyResults ==
    [self EXCEPT
        !.search_point_hash_table = NonEmptyOnly(@),
        !.results = NonEmptyOnly(@),
        !.model_ids = NonEmptyOnly(@)]

\* C9: a query ends as it would had the entries with an empty result never
\* been recorded (same entries in the same order, or the same exception), and
\* no entry sort_search_points returns has an empty result.
C9_EmptyResultsIgnored ==
    /\ ret.op = "sort_search_points" =>
          /\ SameOutcome(ret.out,
                sort_search_points(WithoutEmptyResults, ret.objectives, ret.apply_goals))
          /\ ret.out.err = "none" =>
                \A p \in 1..Len(ret.out.value.results) : ret.out.value.results[p] # <<>>
    /\ ret.op = "get_pareto_frontier" =>
          \A raises \in BOOLEAN :
              SameOutcome(
                get_pareto_frontier(self, ret.objectives, ret.apply_goals, raises),
                get_pareto_frontier(WithoutEmptyResults, ret.objectives,
                                    ret.apply_goals, raises))

\* a failed trial sits between two trials with results, and the sort returns
\* the two
C9_Witness ==
    /\ ret.op = "sort_search_points"
    /\ Len(self.results) = 3
    /\ self.results[2].v = <<>>
    /\ ret.out.err = "none"
    /\ Len(ret.out.value.results) = 2
    /\ ret.out.value.results[1] = self.results[3].v

\* ---- aliasing

\* C10: after record returns, the caller changing any of the three objects
\* it passed changes no stored entry (and so no later query output).
C10_RecordStoresCopies ==
    [][ret'.op = "mutate" => self' = self]_vars

\* ---- concurrency

\* the triple a record call with these arguments stores
TripleWritten(call) ==
    [search_point |-> <<call.search_point>>,
     result |-> <<call.result>>,
     model_ids |-> <<call.model_ids>>]

\* C11: whatever a reader sees under a fingerprint while a record call for
\* it is running is the triple of one record call: the one the earlier call
\* stored (or nothing at all), or the one the running call stores -- never
\* fields of both.
C11_ReaderSeesOneCall ==
    (ret.op = "recording" /\ ret.seen # <<>>) =>
        ret.seen[1] \in {ret.old, TripleWritten(ret)}

\* ---- degenerate queries

\* no entry qualifies: every result is empty, or apply_goals is set and
\* check_goals returns False for every non-empty one (the ledger may be empty)
NoEntryQualifies(apply_goals) ==
    \A i \in 1..Len(self.results) :
        \/ self.results[i].v = <<>>
        \/ /\ apply_goals
           /\ check_goals(self, self.results[i].v).err = "none"
           /\ ~check_goals(self, self.results[i].v).value

\* C12: when no entry qualifies, sort_search_points returns the
\* (None, None, None) sentinel and raises nothing.
C12_SortSentinel ==
    (ret.op = "sort_search_points" /\ NoEntryQualifies(ret.apply_goals)) =>
        /\ ret.out.err = "none"
        /\ ret.out.value.none

\* a failed trial and a trial that misses the goals are on the ledger, and
\* the sort under the goals returns the sentinel
C12_Witness ==
    /\ ret.op = "sort_search_points"
    /\ ret.apply_goals
    /\ self.goals # <<>>
    /\ Len(self.results) = 2
    /\ self.results[1].v = <<>>
    /\ self.results[2].v # <<>>
    /\ NoEntryQualifies(TRUE)
    /\ ret.out.err = "none" /\ ret.out.value.none

\* C13: when no entry qualifies, get_pareto_frontier returns an empty
\* sequence and raises nothing.
C13_FrontierEmpty ==
    (ret.op = "get_pareto_frontier" /\ NoEntryQualifies(ret.apply_goals)) =>
        /\ ret.out.err = "none"
        /\ ret.out.value = <<>>

\* a failed trial and a trial that misses the goals are on the ledger, and
\* the frontier under the goals is empty
C13_Witness ==
    /\ ret.op = "get_pareto_frontier"
    /\ ret.apply_goals
    /\ self.goals # <<>>
    /\ Len(self.results) = 2
    /\ self.results[1].v # <<>>
    /\ self.results[2].v = <<>>
    /\ NoEntryQualifies(TRUE)
    /\ ret.out.err = "none" /\ ret.out.value = <<>>

\* ---- results that lack an objective

\* entry i has a non-empty result that lacks an objective the query selects
LacksSelected(i, objectives) ==
    /\ self.results[i].v # <<>>
    /\ \E d \in 1..Len(Selected(objectives)) :
          ~DictHas(self.results[i].v, Selected(objectives)[d])

\* check_goals returns False for entry i
RejectedByGoals(i) ==
    /\ check_goals(self, self.results[i].v).err = "none"
    /\ ~check_goals(self, self.results[i].v).value

IsQuery == ret.op \in {"sort_search_points", "get_pareto_frontier"}

\* C14: a stored non-empty result that lacks an objective the query selects
\* makes get_pareto_frontier and sort_search_points fail with the lookup
\* error, for every apply_goals setting.
C14_MissingObjectiveRaises ==
    (IsQuery /\ \E i \in 1..Len(self.results) : LacksSelected(i, ret.objectives))
        => ret.out.err = "KeyError"

\* C14 as amended: the lookup error is raised when such an entry is not
\* filtered out by the goals first, that is when apply_goals is off or
\* check_goals does not return False for it.
C14_MissingObjectiveRaisesUnlessRejected ==
    (IsQuery /\ \E i \in 1..Len(self.results) :
                    /\ LacksSelected(i, ret.objectives)
                    /\ ~(ret.apply_goals /\ RejectedByGoals(i)))
        => ret.out.err = "KeyError"

\* a full result, then a result without latency; the frontier on latency is
\* asked for without the goals and the lookup error comes out
C14_Witness ==
    /\ ret.op = "get_pareto_frontier"
    /\ ~ret.apply_goals
    /\ ret.objectives = <<"latency">>
    /\ Len(self.results) = 2
    /\ ~LacksSelected(1, ret.objectives) /\ self.results[1].v # <<>>
    /\ LacksSelected(2, ret.objectives)
    /\ ret.out.err = "KeyError"

\* ---- record takes anything

\* C15: whatever was recorded or asked before, record can be called and
\* takes any result mapping (full, lacking objectives, or empty): the result
\* is stored as given under the fingerprint of the configuration.
C15_RecordAlwaysAccepts ==
    ret = Idle =>
        /\ ENABLED RecordAny
        /\ \A search_point \in SinglePassPoints, result \in Results :
              LET stored == record(self, search_point, result, ModelIdsOf(search_point)).results
              IN /\ DictHas(stored, hash_dict(search_point))
                 /\ DictGet(stored, hash_dict(search_point)) = result

\* a result without latency was recorded over an earlier entry of a ledger
\* of two, and is stored as given
C15_Witness ==
    /\ ret.op = "record"
    /\ ret.replaced
    /\ Len(self.results) = 2
    /\ DictKeys(ret.result) = <<"accuracy">>
    /\ DictGet(self.results, hash_dict(ret.search_point)) = ret.result

\* ---- check_goals on a result that lacks a goal objective

\* the result lacks the objective of index i
LacksObjective(result, i) == ~DictHas(result, self.objective_dict[i].k)

\* C16: check_goals raises the lookup failure whenever the result lacks an
\* objective that has a goal, whatever the other goal objectives are.
C16_MissingGoalObjectiveRaises ==
    (ret.op = "check_goals" /\ \E i \in GoalObjectives : LacksObjective(ret.result, i))
        => ret.out.err = "KeyError"

\* C16 as amended: check_goals raises the lookup failure exactly when the
\* result lacks a goal objective and every goal objective configured before
\* it is in the result and meets its goal; a goal objective that is there and
\* misses its goal ends the call with False before the later ones are read.
C16_MissingGoalObjectiveRaisesUnlessEarlierMiss ==
    ret.op = "check_goals" =>
        (ret.out.err = "KeyError" <=>
            \E i \in GoalObjectives :
                /\ LacksObjective(ret.result, i)
                /\ \A j \in GoalObjectives :
                      j < i => ~LacksObjective(ret.result, j) /\ MeetsGoal(ret.result, j))

\* both objectives have a goal, the result meets the first and lacks the
\* second: the lookup failure
C16_Witness ==
    /\ ret.op = "check_goals"
    /\ Cardinality(GoalObjectives) = 2
    /\ ~LacksObjective(ret.result, 1) /\ MeetsGoal(ret.result, 1)
    /\ LacksObjective(ret.result, 2)
    /\ ret.out.err = "KeyError"

\* ---- the goal filter

\* the entries of d whose fingerprint has a result that qualifies under the
\* goals
GoalPassingOnly(d) ==
    SelectSeq(d, LAMBDA e : Qualifies(DictGet(self.results, e.k), TRUE))

\* the ledger had only the trials that pass the goals been recorded
OnlyGoalPassing ==
    [self EXCEPT
        !.search_point_hash_table = GoalPassingOnly(@),
        !.results = GoalPassingOnly(@),
        !.model_ids = GoalPassingOnly(@)]

\* fingerprints of the entries that qualify, in ledger order
QualifyingInOrder(apply_goals) ==
    DictKeys(SelectSeq(self.results, LAMBDA e : Qualifies(e.v, apply_goals)))

\* C17: a query considers exactly the entries with a non-empty result that,
\* under apply_goals, pass check_goals (none is left out because of goals
\* otherwise); under apply_goals it ends as it would without the goals on
\* the ledger holding only the passing entries, so a failing entry is
\* neither returned nor able to displace a passing one.
C17_GoalFilterExact ==
    IsQuery =>
        /\ LET got == get_results_list(self, ret.objectives, ret.apply_goals)
           IN /\ got.err = "none"
              /\ got.value.search_point_hashes = QualifyingInOrder(ret.apply_goals)
        /\ (ret.op = "sort_search_points" /\ ret.apply_goals) =>
              SameOutcome(ret.out, sort_search_points(OnlyGoalPassing, ret.objectives, FALSE))
        /\ (ret.op = "get_pareto_frontier" /\ ret.apply_goals) =>
              \A raises \in BOOLEAN :
                  SameOutcome(
                    get_pareto_frontier(self, ret.objectives, TRUE, raises),
                    get_pareto_frontier(OnlyGoalPassing, ret.objectives, FALSE, raises))

\* three trials with results, one of them missing the goals; sorted without
\* the goals it comes first, sorted under the goals the other two come out
C17_Witness ==
    /\ ret.op = "sort_search_points"
    /\ ret.apply_goals
    /\ Len(self.results) = 3
    /\ \A i \in 1..3 : self.results[i].v # <<>>
    /\ Len(QualifyingInOrder(TRUE)) = 2
    /\ ~Qualifies(sort_search_points(self, ret.objectives, FALSE).value.results[1], TRUE)
    /\ ret.out.err = "none"
    /\ Len(ret.out.value.results) = 2
    /\ \A p \in 1..2 : Qualifies(ret.out.value.results[p], TRUE)

\* ---- the three sequences of sort_search_points

\* fingerprint of the entry at position p of what sort_search_points returned
HashAt(p) == hash_dict(ret.out.value.search_points[p])

\* C18: the three sequences sort_search_points returns have one length, hold
\* every qualifying entry exactly once, and at each position the artifact
\* ids, the configuration and the result (as recorded) are those stored under
\* one fingerprint.
C18_SortParallelSequences ==
    SortReturnedEntries =>
        LET n == Len(ret.out.value.results) IN
        /\ Len(ret.out.value.model_ids) = n
        /\ Len(ret.out.value.search_points) = n
        /\ \A p, q \in 1..n : HashAt(p) = HashAt(q) => p = q
        /\ {HashAt(p) : p \in 1..n} = QualifyingHashes(ret.apply_goals)
        /\ \A p \in 1..n :
              /\ ret.out.value.search_points[p]
                    = DictGet(self.search_point_hash_table, HashAt(p))
              /\ ret.out.value.results[p] = DictGet(self.results, HashAt(p))
              /\ ret.out.value.model_ids[p] = DictGet(self.model_ids, HashAt(p))

\* three entries, one of them failed, come out as two, in another order than
\* they were recorded
C18_Witness ==
    /\ SortReturnedEntries
    /\ Len(self.results) = 3
    /\ Len(ret.out.value.results) = 2
    /\ self.results[1].v # <<>> /\ self.results[3].v # <<>>
    /\ HashAt(1) = self.results[3].k
    /\ HashAt(2) = self.results[1].k
    /\ ret.out.value.model_ids[1] # ret.out.value.model_ids[2]

\* ---- sorting on one objective

\* C19: sorted on a single higher_is_better objective the entries come out
\* by ascending raw value of that objective, lowest first; the trials A, B,
\* C, D of the example sorted on accuracy come out as D, C, A, B.
C19_SortSingleAscending ==
    /\ (SortReturnedEntries /\ Len(ret.objectives) = 1 /\ HigherIsBetter(ret.objectives[1])) =>
          \A p \in 1..(Len(ret.out.value.results) - 1) :
              DictGet(ret.out.value.results[p], ret.objectives[1])
                <= DictGet(ret.out.value.results[p + 1], ret.objectives[1])
    /\ LET out == sort_search_points(ExampleLedger, <<"accuracy">>, FALSE)
       IN /\ out.err = "none"
          /\ out.value.model_ids
                = <<ExampleTrials[4].model_ids, ExampleTrials[3].model_ids,
                    ExampleTrials[1].model_ids, ExampleTrials[2].model_ids>>

\* three trials recorded with accuracy 1, 0, 1 come out sorted on accuracy
\* as 0, 1, 1
C19_Witness ==
    /\ SortReturnedEntries
    /\ ret.objectives = <<"accuracy">>
    /\ HigherIsBetter("accuracy")
    /\ Len(self.results) = 3
    /\ Len(ret.out.value.results) = 3
    /\ DictGet(self.results[1].v, "accuracy") > DictGet(self.results[2].v, "accuracy")
    /\ DictGet(ret.out.value.results[1], "accuracy")
          < DictGet(ret.out.value.results[2], "accuracy")
    /\ ret.out.value.results[1] = self.results[2].v

\* ---- model-id tokens

\* the last artifact id stored under the fingerprint h
LastModelId(h) == DictGet(self.model_ids, h)[Len(DictGet(self.model_ids, h))]

\* C20: when the frontier has an entry, get_pareto_frontier returns, and each
\* element it returns is the text before the first underscore of the last
\* artifact id of a frontier entry.
C20_TokenOfLastId ==
    (ret.op = "get_pareto_frontier"
        /\ FrontierHashes(ret.objectives, ret.apply_goals) # {}) =>
        /\ ret.out.err = "none"
        /\ Len(ret.out.value) > 0
        /\ \A i \in 1..Len(ret.out.value) :
              \E h \in FrontierHashes(ret.objectives, ret.apply_goals) :
                  ret.out.value[i] = TokenOf(LastModelId(h))


\* ---- order of the frontier

\* tokens of the frontier entries, in the order in which their fingerprints
\* were first inserted into the ledger
FrontierInOrder(objectives, apply_goals) ==
    LET kept == SelectSeq(self.results,
                          LAMBDA e : e.k \in FrontierHashes(objectives, apply_goals))
    IN [i \in 1..Len(kept) |-> TokenOf(LastModelId(kept[i].k))]

\* C21: get_pareto_frontier returns the frontier entries in the order in
\* which their fingerprints were first inserted into the ledger, not sorted
\* by any objective.
C21_FrontierInInsertionOrder ==
    ret.op = "get_pareto_frontier" =>
        /\ ret.out.err = "none"
        /\ ret.out.value = FrontierInOrder(ret.objectives, ret.apply_goals)


\* ---- queries leave the ledger alone

ReadOnlyOps == {"get_pareto_frontier", "sort_search_points", "check_goals", "to_json"}

\* C22: get_pareto_frontier, sort_search_points, check_goals and to_json,
\* whether they return or fail, leave the ledger as it was: the three maps,
\* the objective specification, the goals and init_model_history.
C22_QueriesReadOnly ==
    [][ret'.op \in ReadOnlyOps => self' = self]_vars

\* sort_search_points failed on a ledger of two entries, the second of which
\* lacks an objective
C22_Witness ==
    /\ ret.op = "sort_search_points"
    /\ ret.out.err = "KeyError"
    /\ Len(self.results) = 2
    /\ self.results[1].v \in FullResults
    /\ self.results[2].v \in PartialResults


\* ---- returned values as snapshots

\* C23: what to_json and sort_search_points returned is a snapshot: a record
\* call made afterwards does not change the value the caller holds, and the
\* caller changing a configuration, result or map it was returned does not
\* change the ledger.
C23_QueryValuesAreSnapshots ==
    [][/\ ret'.op = "kept" => ret'.out = ret.out
       /\ ret'.op = "mutate_returned" => self' = self]_vars


\* ---- loading a persisted document

\* a stored non-empty result of the document lacks an objective of the
\* document's objective specification
Incompatible(doc) ==
    \E i \in 1..Len(doc.results) :
        /\ doc.results[i].v # <<>>
        /\ \E j \in 1..Len(doc.objective_dict) :
              ~DictHas(doc.results[i].v, doc.objective_dict[j].k)

\* C24: from_json fails at load time on a document whose objective
\* specification is incompatible with its entries.
C24_LoadValidates ==
    (ret.op = "load_json" /\ Incompatible(ret.json_dict)) => ret.out.err # "none"

\* the five fields to_json writes
PersistedFields ==
    {"objective_dict", "init_model_history", "results", "model_ids", "search_point_hash_table"}

\* C26: loading a document that has the five expected fields and further
\* top-level fields succeeds and yields the store the document without the
\* further fields yields.
C26_ExtraFieldsIgnored ==
    ret.op = "load_json" =>
        /\ ret.out.err = "none"
        /\ ret.out.value = from_json([f \in PersistedFields |-> ret.json_dict[f]])

\* a document of two entries with two unknown fields was loaded
C26_Witness ==
    /\ ret.op = "load_json"
    /\ DOMAIN ret.json_dict = PersistedFields \cup {"version", "comment"}
    /\ Len(ret.json_dict.results) = 2
    /\ ret.out.err = "none"
    /\ ret.out.value.results = self.results
    /\ ret.out.value.goals = self.goals


\* ---- the table of results

\* the entries with a non-empty result, in ledger order
NonEmptyEntries == SelectSeq(self.results, LAMBDA e : e.v # <<>>)

\* the row of the table for an entry: model number, the value of each
\* objective, the goal flag and the frontier flag
RowOf(e) ==
    [model_number |-> TokenOf(LastModelId(e.k)),
     values |-> [d \in 1..Len(self.objectives) |->
                    IF DictHas(e.v, self.objectives[d])
                    THEN <<DictGet(e.v, self.objectives[d])>> ELSE <<>>],
     goals_met |-> check_goals(self, e.v),
     is_pareto |-> TokenOf(LastModelId(e.k))
                      \in Range(get_pareto_frontier(self, <<>>, FALSE, FALSE).value)]

\* C25: get_results_df returns, for any ledger built by record calls, the
\* table with one row per entry that has a non-empty result.
C25_ResultsTable ==
    ret.op = "get_results_df" =>
        /\ ret.out.err = "none"
        /\ ret.out.value = [i \in 1..Len(NonEmptyEntries) |-> RowOf(NonEmptyEntries[i])]


\* ---- record calls of different fingerprints

\* the ledgers x and y store the same triple under every fingerprint
SameEntries(x, y) ==
    /\ KeySet(x.results) = KeySet(y.results)
    /\ \A h \in KeySet(x.results) : TripleOf(x, h) = TripleOf(y, h)

\* C27: two record calls of different fingerprints made in either order
\* leave the same triple under every fingerprint, and get_pareto_frontier
\* and sort_search_points return the same afterwards.
C27_RecordsCommute ==
    ret.op = "record_two" =>
        /\ SameEntries(self, ret.swapped)
        /\ SameAnswers(self, ret.swapped)

\* the entries a sort returned, as a set of triples
SortedTriples(v) ==
    {[model_ids |-> v.model_ids[p], search_point |-> v.search_points[p],
      result |-> v.results[p]] : p \in 1..Len(v.results)}

\* the values of the objectives objs at each position of a sort's output
SortedKeys(v, objs) ==
    [p \in 1..Len(v.results) |-> [d \in 1..Len(objs) |-> DictGet(v.results[p], objs[d])]]

\* two sorts end alike but for the order of the entries that are equal in
\* every objective sorted on
SameSortUpToTies(a, b, objs) ==
    /\ a.err = b.err
    /\ a.err = "none" =>
          /\ a.value.none = b.value.none
          /\ Len(a.value.results) = Len(b.value.results)
          /\ SortedTriples(a.value) = SortedTriples(b.value)
          /\ SortedKeys(a.value, objs) = SortedKeys(b.value, objs)

\* two frontier queries end alike: the same exception, or the same tokens
SameFrontier(a, b) == a.err = b.err /\ (a.err = "none" => Range(a.value) = Range(b.value))

\* C27 as amended: the two orders leave the same triple under every
\* fingerprint; get_pareto_frontier ends the same way; sort_search_points
\* returns the same entries with the same sequence of sorted-on values, the
\* order among entries equal in every objective sorted on being the order
\* of first insertion, which the order of the two calls decides.
C27_RecordsCommuteUpToTies ==
    ret.op = "record_two" =>
        /\ SameEntries(self, ret.swapped)
        /\ \A objectives \in ObjectiveLists, apply_goals \in BOOLEAN :
              /\ SameSortUpToTies(sort_search_points(self, objectives, apply_goals),
                                  sort_search_points(ret.swapped, objectives, apply_goals),
                                  Selected(objectives))
              /\ \A raises \in BOOLEAN :
                    SameFrontier(get_pareto_frontier(self, objectives, apply_goals, raises),
                                 get_pareto_frontier(ret.swapped, objectives, apply_goals, raises))

\* two new fingerprints were recorded with equal results on a ledger that
\* held a third: the sort after one order differs from the sort after the other
C27_Witness ==
    /\ ret.op = "record_two"
    /\ Len(self.results) = 3
    /\ ret.first.result = ret.second.result
    /\ ret.first.result # <<>>
    /\ DictKeys(self.results) # DictKeys(ret.swapped.results)
    /\ sort_search_points(self, <<>>, FALSE).err = "none"
    /\ sort_search_points(self, <<>>, FALSE) # sort_search_points(ret.swapped, <<>>, FALSE)


\* ---- what record touches

\* the fingerprints that have an entry in some map of the ledger x
AllKeys(x) == KeySet(x.search_point_hash_table) \cup KeySet(x.results) \cup KeySet(x.model_ids)

\* the objective specification and the history of the ledger x
Configured(x) ==
    [objective_dict |-> x.objective_dict, objectives |-> x.objectives,
     higher_is_betters |-> x.higher_is_betters, obj_mul |-> x.obj_mul,
     goals |-> x.goals, init_model_history |-> x.init_model_history]

\* C28: record for a configuration of fingerprint h changes the entry under
\* h only: no entry under another fingerprint is created or changed, and the
\* objectives, multipliers, goals and init_model_history stay as they are; no
\* other operation creates or changes an entry.
C28_RecordTouchesOneEntry ==
    [][/\ Configured(self') = Configured(self)
       /\ ret'.op = "record" =>
             \E h \in {hash_dict(ret'.search_point)} :
                 \A k \in (AllKeys(self) \cup AllKeys(self')) \ {h} :
                     TripleOf(self', k) = TripleOf(self, k)
       /\ ret'.op # "record" =>
             /\ self'.search_point_hash_table = self.search_point_hash_table
             /\ self'.results = self.results
             /\ self'.model_ids = self.model_ids]_vars

\* a trial was recorded again with another result beside a failed trial,
\* which is still there
C28_Witness ==
    /\ ret.op = "record"
    /\ ret.replaced
    /\ Len(self.results) = 2
    /\ hash_dict(ret.search_point) = self.results[2].k
    /\ self.results[2].v \in FullResults
    /\ self.results[1].v = <<>>


\* ---- the three maps go together

\* every non-empty result stored has every objective
AllResultsFull == \A i \in 1..Len(self.results) : self.results[i].v \in FullResults \cup {<<>>}

\* C29: after any sequence of record calls the three maps have the same key
\* set, so the lookups of model_ids[h] and search_point_hash_table[h] that a
\* query makes for a key h of results succeed.
C29_MapsShareKeys ==
    /\ KeySet(self.search_point_hash_table) = KeySet(self.results)
    /\ KeySet(self.model_ids) = KeySet(self.results)
    /\ \A h \in KeySet(self.results) :
          /\ Lookup(self.model_ids, h) # <<>>
          /\ Lookup(self.search_point_hash_table, h) # <<>>
    /\ (ret.op = "sort_search_points" /\ AllResultsFull) => ret.out.err = "none"

\* two trials with results were recorded and the sort looked both up: the
\* one recorded second comes out first, with its own artifact ids
C29_Witness ==
    /\ ret.op = "sort_search_points"
    /\ Len(self.results) = 2
    /\ AllResultsFull
    /\ ret.out.err = "none"
    /\ ~ret.out.value.none
    /\ Len(ret.out.value.model_ids) = 2
    /\ ret.out.value.model_ids[1] = DictGet(self.model_ids, self.results[2].k)

\* ---- no goal configured

\* C30: when no objective has a goal, sort_search_points(apply_goals=True)
\* returns (None, None, None) and get_pareto_frontier(apply_goals=True)
\* returns no model id, whatever has been recorded.
C30_NoGoalsNothingQualifies ==
    (IsQuery /\ GoalObjectives = {} /\ ret.apply_goals) =>
        /\ ret.out.err = "none"
        /\ ret.op = "sort_search_points" => ret.out.value.none
        /\ ret.op = "get_pareto_frontier" => ret.out.value = <<>>

\* two trials with results on a ledger without goals: the sort under the
\* goals returns the sentinel, the same sort without the goals returns both
C30_Witness ==
    /\ ret.op = "sort_search_points"
    /\ ret.apply_goals
    /\ GoalObjectives = {}
    /\ Len(self.results) = 2
    /\ \A i \in 1..2 : self.results[i].v \in FullResults
    /\ ret.out.err = "none" /\ ret.out.value.none
    /\ sort_search_points(self, ret.objectives, FALSE).err = "none"
    /\ Len(sort_search_points(self, ret.objectives, FALSE).value.results) = 2

====

